---- MODULE Spec2Model ----
(***************************************************************************)
(* Model of pyspike/isi_distance.py: the ISI profile and distance          *)
(* functions (bivariate, multivariate, matrix) and their dispatchers.      *)
(*                                                                         *)
(* Times are integers, profile values are exact rationals <<n, d>> in      *)
(* lowest terms, so the model decides the equalities between the runtime   *)
(* paths in exact arithmetic (floating-point rounding is not modelled).    *)
(*                                                                         *)
(* The collaborators of isi_distance.py that are not part of               *)
(* pyspike/isi_distance.py (SpikeTrain, PieceWiseConstFunc, the cython /   *)
(* python profile engines and pyspike.generic) are modelled from their     *)
(* contract in spec.md.                                                    *)
(***************************************************************************)
EXTENDS Integers, Sequences, FiniteSets, TLC

\* ------------------------------------------------------------------ bounds
MaxT == 3          \* times range over 0..MaxT
MaxSpikes == 2     \* spikes per spike train
MaxTrains == 3     \* spike trains in the collection handed to a call
MaxNotices == 3    \* cap of the counter of fallback notices printed

\* -------------------------------------------------------------- arithmetic
Abs(n) == IF n < 0 THEN -n ELSE n

MaxOf(S) == CHOOSE m \in S : \A k \in S : k <= m

MinOf(S) == CHOOSE m \in S : \A k \in S : m <= k

RECURSIVE GCD(_, _)
GCD(a, b) == IF b = 0 THEN a ELSE GCD(b, a % b)

\* the rational n/d (d # 0) in lowest terms with a positive denominator
Rat(n, d) ==
    LET s == IF d < 0 THEN -1 ELSE 1
        g == GCD(Abs(n), Abs(d))
    IN  <<(s * n) \div g, (s * d) \div g>>

RZero == <<0, 1>>

RAdd(p, q) == Rat(p[1] * q[2] + q[1] * p[2], p[2] * q[2])

RMul(p, q) == Rat(p[1] * q[1], p[2] * q[2])

RECURSIVE SortedSeq(_)
SortedSeq(S) ==
    IF S = {} THEN <<>> ELSE LET m == MinOf(S) IN <<m>> \o SortedSeq(S \ {m})

Range(s) == {s[i] : i \in 1..Len(s)}

\* ------------------------------------------------------------- spike trains
\* SpikeTrain: sorted spike times inside [t_start, t_end], t_start < t_end
TrainsOn(t_start, t_end, sizes) ==
    {[spikes |-> SortedSeq(S), t_start |-> t_start, t_end |-> t_end] :
       S \in {X \in SUBSET ((t_start + 1)..(t_end - 1)) : Cardinality(X) \in sizes}}

\* the spike trains tried: up to MaxSpikes spikes on [0, MaxT], and one-spike
\* trains on an interval that ends earlier and on one that starts later
TrainSet ==
    TrainsOn(0, MaxT, 0..MaxSpikes) \cup TrainsOn(0, MaxT - 1, {1}) \cup TrainsOn(1, MaxT, {1})

\* SpikeTrain.get_spikes_non_empty: auxiliary spikes at the edges when empty
get_spikes_non_empty(st) ==
    IF Len(st.spikes) < 1 THEN <<st.t_start, st.t_end>> ELSE st.spikes

\* ----------------------------------------------------------- profile engine
\* length of the inter-spike interval of the spikes s that holds at time u
Nu(s, t_start, t_end, u) ==
    MinOf({t_end} \cup {x \in Range(s) : x > u})
      - MaxOf({t_start} \cup {x \in Range(s) : x <= u /\ x >= t_start})

\* the ISI ratio |nu1 - nu2| / max(nu1, nu2)
IsiValue(nu1, nu2) == Rat(Abs(nu1 - nu2), IF nu1 > nu2 THEN nu1 ELSE nu2)

\* breakpoints: the domain ends and every spike strictly inside
SpikeEvents(s1, s2, t_start, t_end) ==
    SortedSeq({t_start, t_end}
              \cup {x \in Range(s1) \cup Range(s2) : t_start < x /\ x < t_end})

\* the profile engine (isi_profile_cython / isi_distance_python): times, values
isi_profile_impl(s1, s2, t_start, t_end) ==
    LET ev == SpikeEvents(s1, s2, t_start, t_end)
    IN  [x |-> ev,
         y |-> [i \in 1..(Len(ev) - 1) |->
                  IsiValue(Nu(s1, t_start, t_end, ev[i]), Nu(s2, t_start, t_end, ev[i]))]]

\* the distance-only engine (isi_distance_cython): one sweep over the events
\* that accumulates value * length, then divides by the length of the domain
RECURSIVE IsiSweep(_, _, _, _, _, _, _)
IsiSweep(ev, i, s1, s2, t_start, t_end, acc) ==
    IF i >= Len(ev) THEN acc
    ELSE IsiSweep(ev, i + 1, s1, s2, t_start, t_end,
                  RAdd(acc, RMul(IsiValue(Nu(s1, t_start, t_end, ev[i]),
                                          Nu(s2, t_start, t_end, ev[i])),
                                 <<ev[i + 1] - ev[i], 1>>)))

isi_distance_impl(s1, s2, t_start, t_end) ==
    RMul(IsiSweep(SpikeEvents(s1, s2, t_start, t_end), 1, s1, s2, t_start, t_end, RZero),
         Rat(1, t_end - t_start))

\* ------------------------------------------------------ PieceWiseConstFunc
\* the value of profile p on the segment that starts at t
ValueAt(p, t) ==
    LET i == MaxOf({k \in 1..(Len(p.x) - 1) : p.x[k] <= t}) IN p.y[i]

\* PieceWiseConstFunc.add: pointwise sum over the union of the breakpoints
PwcAdd(p, q) ==
    LET ev == SortedSeq(Range(p.x) \cup Range(q.x))
    IN  [x |-> ev,
         y |-> [i \in 1..(Len(ev) - 1) |-> RAdd(ValueAt(p, ev[i]), ValueAt(q, ev[i]))]]

\* PieceWiseConstFunc.mul_scalar
PwcMulScalar(p, c) == [x |-> p.x, y |-> [i \in 1..Len(p.y) |-> RMul(p.y[i], c)]]

\* integral of p over [a, b]: sum of value * overlap over the segments
RECURSIVE PwcIntegral(_, _, _, _)
PwcIntegral(p, a, b, i) ==
    IF i > Len(p.y) THEN RZero
    ELSE LET lo == IF p.x[i] > a THEN p.x[i] ELSE a
             hi == IF p.x[i + 1] < b THEN p.x[i + 1] ELSE b
             w == IF hi > lo THEN hi - lo ELSE 0
         IN  RAdd(RMul(p.y[i], <<w, 1>>), PwcIntegral(p, a, b, i + 1))

NoInterval == [given |-> FALSE, a |-> 0, b |-> 0]

Num(r) == [kind |-> "num", val |-> r]

Err(e) == [kind |-> "error", val |-> e]

\* PieceWiseConstFunc.avrg(interval): a number, or DomainError
PwcAvrg(p, interval) ==
    LET T0 == p.x[1]
        T1 == p.x[Len(p.x)]
    IN  IF ~interval.given
        THEN IF T0 = T1 THEN Err("DomainError")
             ELSE Num(RMul(PwcIntegral(p, T0, T1, 1), Rat(1, T1 - T0)))
        ELSE IF ~(T0 <= interval.a /\ interval.a < interval.b /\ interval.b <= T1)
             THEN Err("DomainError")
             ELSE Num(RMul(PwcIntegral(p, interval.a, interval.b, 1),
                           Rat(1, interval.b - interval.a)))

VARIABLES cython_available, disable_backend_warning, spike_trains, call, notices

vars == <<cython_available, disable_backend_warning, spike_trains, call, notices>>

\* ------------------------------------------------------------ call results
\* every function returns [res, log]: its result (a value or the error it
\* raised) and the trace of the steps it took, in order
Profile(p) == [kind |-> "profile", val |-> p]

IsErr(r) == r.res.kind = "error"

NoIndices == [given |-> FALSE, val |-> <<>>]

\* ---------------------------------------------------------- isi_profile_bi
isi_profile_bi(spike_train1, spike_train2) ==
    IF spike_train1.t_start # spike_train2.t_start
    THEN [res |-> Err("IncompatibleIntervalError"),
          log |-> <<"isi_profile_bi", "assert_same_interval">>]
    ELSE IF spike_train1.t_end # spike_train2.t_end
    THEN [res |-> Err("IncompatibleIntervalError"),
          log |-> <<"isi_profile_bi", "assert_same_interval">>]
    ELSE [res |-> Profile(isi_profile_impl(get_spikes_non_empty(spike_train1),
                                           get_spikes_non_empty(spike_train2),
                                           spike_train1.t_start, spike_train1.t_end)),
          log |-> <<"isi_profile_bi", "assert_same_interval">>
                  \o (IF cython_available
                      THEN <<"isi_profile_cython">>
                      ELSE (IF ~disable_backend_warning THEN <<"notice">> ELSE <<>>)
                           \o <<"isi_distance_python">>)]

\* profile.avrg(interval) applied to the outcome of a profile computation
ThenAvrg(r, interval) ==
    IF IsErr(r) THEN r
    ELSE [res |-> PwcAvrg(r.res.val, interval), log |-> r.log \o <<"avrg">>]

\* isi_distance_bi with the first spike train handed to the engine twice
isi_distance_bi_same_train(spike_train1, spike_train2, interval) ==
    LET viaProfile == ThenAvrg(isi_profile_bi(spike_train1, spike_train2), interval)
    IN  IF ~interval.given /\ cython_available
        THEN [res |-> Num(isi_distance_impl(get_spikes_non_empty(spike_train1),
                                            get_spikes_non_empty(spike_train1),
                                            spike_train1.t_start, spike_train1.t_end)),
              log |-> <<"isi_distance_bi", "isi_distance_cython">>]
        ELSE [res |-> viaProfile.res, log |-> <<"isi_distance_bi">> \o viaProfile.log]

\* isi_distance_bi taking the fast path whenever the engine is there, the
\* interval dropped
isi_distance_bi_always_fast(spike_train1, spike_train2, interval) ==
    LET viaProfile == ThenAvrg(isi_profile_bi(spike_train1, spike_train2), interval)
    IN  IF cython_available
        THEN [res |-> Num(isi_distance_impl(get_spikes_non_empty(spike_train1),
                                            get_spikes_non_empty(spike_train2),
                                            spike_train1.t_start, spike_train1.t_end)),
              log |-> <<"isi_distance_bi", "isi_distance_cython">>]
        ELSE [res |-> viaProfile.res, log |-> <<"isi_distance_bi">> \o viaProfile.log]

\* --------------------------------------------------------- isi_distance_bi
isi_distance_bi(spike_train1, spike_train2, interval) ==
    LET viaProfile == ThenAvrg(isi_profile_bi(spike_train1, spike_train2), interval)
    IN  IF ~interval.given /\ cython_available
        THEN [res |-> Num(isi_distance_impl(get_spikes_non_empty(spike_train1),
                                            get_spikes_non_empty(spike_train2),
                                            spike_train1.t_start, spike_train1.t_end)),
              log |-> <<"isi_distance_bi", "isi_distance_cython">>]
        ELSE [res |-> viaProfile.res, log |-> <<"isi_distance_bi">> \o viaProfile.log]

\* ---------------------------------------------------------- pyspike.generic
\* the selected positions (1-based here): all trains when indices is None
SelectedIndices(trains, indices) ==
    IF indices.given THEN indices.val ELSE [i \in 1..Len(trains) |-> i]

\* the unordered pairs <<idx[i], idx[j]>>, i < j, in enumeration order
RECURSIVE PairsFrom(_, _, _)
PairsFrom(idx, i, j) ==
    IF i >= Len(idx) THEN <<>>
    ELSE IF j > Len(idx) THEN PairsFrom(idx, i + 1, i + 2)
    ELSE <<<<idx[i], idx[j]>>>> \o PairsFrom(idx, i, j + 1)

\* the checks without the comparison of the intervals
GenericChecks_no_compat(trains, idx) ==
    IF Len(idx) < 2 THEN <<"InsufficientInputError">> ELSE <<>>

\* the checks with the cardinality test off by one
GenericChecks_off_by_one(trains, idx) ==
    IF Len(idx) < 1 THEN <<"InsufficientInputError">>
    ELSE IF \E i, j \in Range(idx) :
                \/ trains[i].t_start # trains[j].t_start
                \/ trains[i].t_end # trains[j].t_end
    THEN <<"IncompatibleIntervalError">>
    ELSE <<>>

\* cardinality and domain-compatibility checks of the selected collection,
\* made before any pair is computed
GenericChecks(trains, idx) ==
    IF Len(idx) < 2 THEN <<"InsufficientInputError">>
    ELSE IF \E i, j \in Range(idx) :
                \/ trains[i].t_start # trains[j].t_start
                \/ trains[i].t_end # trains[j].t_end
    THEN <<"IncompatibleIntervalError">>
    ELSE <<>>

ZeroProfile(t_start, t_end) == [x |-> <<t_start, t_end>>, y |-> <<RZero>>]

RECURSIVE ProfileFold(_, _, _, _, _)
ProfileFold(trains, pairs, k, acc, log) ==
    IF k > Len(pairs) THEN [res |-> Profile(acc), log |-> log]
    ELSE LET r == isi_profile_bi(trains[pairs[k][1]], trains[pairs[k][2]])
         IN  IF IsErr(r) THEN [res |-> r.res, log |-> log \o r.log]
             ELSE ProfileFold(trains, pairs, k + 1, PwcAdd(acc, r.res.val), log \o r.log)

\* _generic_profile_multi(spike_trains, isi_profile_bi, indices): the sum of
\* the pair profiles and the number of pairs M (pair_distance_func is
\* isi_profile_bi at its one call site, isi_distance_bi in the two below)
_generic_profile_multi(trains, indices) ==
    LET idx == SelectedIndices(trains, indices)
        chk == GenericChecks(trains, idx)
        pairs == PairsFrom(idx, 1, 2)
        fold == ProfileFold(trains, pairs, 1,
                            ZeroProfile(trains[idx[1]].t_start, trains[idx[1]].t_end),
                            <<"generic_checks">>)
    IN  IF chk # <<>> THEN [res |-> Err(chk[1]), M |-> 0, log |-> <<"generic_checks">>]
        ELSE [res |-> fold.res, M |-> Len(pairs), log |-> fold.log]

RECURSIVE DistanceFold(_, _, _, _, _, _)
DistanceFold(trains, pairs, interval, k, acc, log) ==
    IF k > Len(pairs)
    THEN [res |-> IF Len(pairs) = 0 THEN Err("ZeroDivisionError")
                  ELSE Num(RMul(acc, Rat(1, Len(pairs)))),
          log |-> log]
    ELSE LET r == isi_distance_bi(trains[pairs[k][1]], trains[pairs[k][2]], interval)
         IN  IF IsErr(r) THEN [res |-> r.res, log |-> log \o r.log]
             ELSE DistanceFold(trains, pairs, interval, k + 1,
                               RAdd(acc, r.res.val), log \o r.log)

\* _generic_distance_multi(spike_trains, isi_distance_bi, indices, interval):
\* the sum of the pair distances divided by the number of pairs
_generic_distance_multi(trains, indices, interval) ==
    LET idx == SelectedIndices(trains, indices)
        chk == GenericChecks(trains, idx)
    IN  IF chk # <<>> THEN [res |-> Err(chk[1]), log |-> <<"generic_checks">>]
        ELSE DistanceFold(trains, PairsFrom(idx, 1, 2), interval, 1, RZero,
                          <<"generic_checks">>)

\* the matrix filled pair by pair: the upper triangle computed, mirrored into
\* the lower one, the diagonal zero
RECURSIVE MatrixFold(_, _, _, _, _, _, _)
MatrixFold(trains, idx, pairs, interval, k, m, log) ==
    IF k > Len(pairs) THEN [res |-> [kind |-> "matrix", val |-> m], log |-> log]
    ELSE LET a == pairs[k][1]
             b == pairs[k][2]
             r == isi_distance_bi(trains[idx[a]], trains[idx[b]], interval)
         IN  IF IsErr(r) THEN [res |-> r.res, log |-> log \o r.log]
             ELSE MatrixFold(trains, idx, pairs, interval, k + 1,
                             [m EXCEPT ![a][b] = r.res.val, ![b][a] = r.res.val],
                             log \o r.log)

\* _generic_distance_matrix(spike_trains, isi_distance_bi, indices, interval)
_generic_distance_matrix(trains, indices, interval) ==
    LET idx == SelectedIndices(trains, indices)
        chk == GenericChecks(trains, idx)
        n == Len(idx)
    IN  IF chk # <<>> THEN [res |-> Err(chk[1]), log |-> <<"generic_checks">>]
        ELSE MatrixFold(trains, idx, PairsFrom([i \in 1..n |-> i], 1, 2), interval, 1,
                        [a \in 1..n |-> [b \in 1..n |-> RZero]], <<"generic_checks">>)

\* isi_profile_multi normalizing twice
isi_profile_multi_scaled_twice(trains, indices) ==
    LET g == _generic_profile_multi(trains, indices)
    IN  IF IsErr(g) THEN [res |-> g.res, log |-> <<"isi_profile_multi">> \o g.log]
        ELSE IF g.M = 0
        THEN [res |-> Err("ZeroDivisionError"), log |-> <<"isi_profile_multi">> \o g.log]
        ELSE [res |-> Profile(PwcMulScalar(PwcMulScalar(g.res.val, Rat(1, g.M)),
                                           Rat(1, g.M))),
              log |-> <<"isi_profile_multi">> \o g.log \o <<"mul_scalar">>]

\* ------------------------------------------------------- isi_profile_multi
isi_profile_multi(trains, indices) ==
    LET g == _generic_profile_multi(trains, indices)
    IN  IF IsErr(g) THEN [res |-> g.res, log |-> <<"isi_profile_multi">> \o g.log]
        ELSE IF g.M = 0
        THEN [res |-> Err("ZeroDivisionError"), log |-> <<"isi_profile_multi">> \o g.log]
        ELSE [res |-> Profile(PwcMulScalar(g.res.val, Rat(1, g.M))),
              log |-> <<"isi_profile_multi">> \o g.log \o <<"mul_scalar">>]

\* isi_distance_multi not passing the interval on
isi_distance_multi_no_interval(trains, indices, interval) ==
    LET g == _generic_distance_multi(trains, indices, NoInterval)
    IN  [res |-> g.res, log |-> <<"isi_distance_multi">> \o g.log]

\* ------------------------------------------------------ isi_distance_multi
isi_distance_multi(trains, indices, interval) ==
    LET g == _generic_distance_multi(trains, indices, interval)
    IN  [res |-> g.res, log |-> <<"isi_distance_multi">> \o g.log]

\* isi_distance_matrix not passing the interval on
isi_distance_matrix_no_interval(trains, indices, interval) ==
    LET g == _generic_distance_matrix(trains, indices, NoInterval)
    IN  [res |-> g.res, log |-> <<"isi_distance_matrix">> \o g.log]

\* ----------------------------------------------------- isi_distance_matrix
isi_distance_matrix(trains, indices, interval) ==
    LET g == _generic_distance_matrix(trains, indices, interval)
    IN  [res |-> g.res, log |-> <<"isi_distance_matrix">> \o g.log]

\* ------------------------------------------------------------- dispatchers
\* isi_profile(*args, **kwargs): kwargs holds the optional indices
isi_profile(args, kwargs) ==
    IF Len(args) = 1 THEN isi_profile_multi(args[1], kwargs.indices)
    ELSE IF Len(args) = 2 THEN isi_profile_bi(args[1], args[2])
    ELSE isi_profile_multi(args, NoIndices)

\* isi_distance without the two-argument branch
isi_distance_no_bi(args, kwargs) ==
    IF Len(args) = 1 THEN isi_distance_multi(args[1], kwargs.indices, kwargs.interval)
    ELSE isi_distance_multi(args, kwargs.indices, kwargs.interval)

\* isi_distance(*args, **kwargs): kwargs holds the optional indices, interval;
\* isi_distance_bi takes no indices: the call with that keyword is a TypeError
isi_distance(args, kwargs) ==
    IF Len(args) = 1 THEN isi_distance_multi(args[1], kwargs.indices, kwargs.interval)
    ELSE IF Len(args) = 2
    THEN IF kwargs.indices.given
         THEN [res |-> Err("TypeError"), log |-> <<"isi_distance_bi", "unexpected_keyword">>]
         ELSE isi_distance_bi(args[1], args[2], kwargs.interval)
    ELSE isi_distance_multi(args, kwargs.indices, kwargs.interval)

\* --------------------------------------------------------------- the state
\* cython_available: whether the imports of .cython.cython_profiles and
\*   .cython.cython_distances succeed in this process
\* disable_backend_warning: pyspike.disable_backend_warning
\* spike_trains: the spike trains the caller holds
\* call: the last call made, its arguments, its result and its trace
\* notices: how many times the fallback notice was printed so far
IndexChoices(n) ==
    {NoIndices} \cup {[given |-> TRUE, val |-> SortedSeq(S)] : S \in SUBSET (1..n)}

\* the index subsets tried through the dispatchers: None, or two positions
KwIndexChoices(n) == {c \in IndexChoices(n) : c.given => Len(c.val) = 2}

IntervalChoices ==
    {NoInterval}
      \cup {[given |-> TRUE, a |-> I[1], b |-> I[2]] : I \in {0, 1} \X {MaxT - 1, MaxT}}

TrainSeqs == UNION {[1..n -> TrainSet] : n \in 0..MaxTrains}

NoCall ==
    [op |-> "none", shape |-> "none", indices |-> NoIndices, interval |-> NoInterval,
     res |-> [kind |-> "none", val |-> <<>>], log |-> <<>>]

NoticeCount(log) == Cardinality({i \in 1..Len(log) : log[i] = "notice"})

Init ==
    /\ cython_available \in BOOLEAN
    /\ disable_backend_warning \in BOOLEAN
    /\ spike_trains \in TrainSeqs
    /\ call = NoCall
    /\ notices = 0

\* a call is made and returns: its outcome is recorded, its notices counted
Return(op, shape, indices, interval, r) ==
    /\ call.op = "none"
    /\ notices + NoticeCount(r.log) <= MaxNotices
    /\ call' = [op |-> op, shape |-> shape, indices |-> indices, interval |-> interval,
                res |-> r.res, log |-> r.log]
    /\ notices' = notices + NoticeCount(r.log)
    /\ UNCHANGED <<cython_available, disable_backend_warning, spike_trains>>

\* the argument list of a dispatcher call: the collection as the one
\* argument, or the spike trains as positional arguments
Args(shape) == IF shape = "collection" THEN <<spike_trains>> ELSE spike_trains

CallIsiProfileBi ==
    /\ Len(spike_trains) >= 2
    /\ Return("isi_profile_bi", "positional", NoIndices, NoInterval,
              isi_profile_bi(spike_trains[1], spike_trains[2]))

CallIsiDistanceBi ==
    /\ Len(spike_trains) >= 2
    /\ \E interval \in IntervalChoices :
          Return("isi_distance_bi", "positional", NoIndices, interval,
                 isi_distance_bi(spike_trains[1], spike_trains[2], interval))

CallIsiProfileMulti ==
    \E indices \in IndexChoices(Len(spike_trains)) :
       Return("isi_profile_multi", "collection", indices, NoInterval,
              isi_profile_multi(spike_trains, indices))

CallIsiDistanceMulti ==
    \E indices \in IndexChoices(Len(spike_trains)), interval \in IntervalChoices :
       Return("isi_distance_multi", "collection", indices, interval,
              isi_distance_multi(spike_trains, indices, interval))

CallIsiDistanceMatrix ==
    \E indices \in IndexChoices(Len(spike_trains)), interval \in IntervalChoices :
       Return("isi_distance_matrix", "collection", indices, interval,
              isi_distance_matrix(spike_trains, indices, interval))

\* a single positional argument is a collection, never one spike train
Shapes == IF Len(spike_trains) = 1 THEN {"collection"} ELSE {"collection", "positional"}

CallIsiProfile ==
    \E shape \in Shapes, indices \in KwIndexChoices(Len(spike_trains)) :
       Return("isi_profile", shape, indices, NoInterval,
              isi_profile(Args(shape), [indices |-> indices, interval |-> NoInterval]))

CallIsiDistance ==
    \E shape \in Shapes, indices \in KwIndexChoices(Len(spike_trains)),
       interval \in IntervalChoices :
       Return("isi_distance", shape, indices, interval,
              isi_distance(Args(shape), [indices |-> indices, interval |-> interval]))

\* the caller takes the result of the last call and goes on
Done ==
    /\ call.op # "none"
    /\ call' = NoCall
    /\ UNCHANGED <<cython_available, disable_backend_warning, spike_trains, notices>>

Next ==
    \/ CallIsiProfileBi
    \/ CallIsiDistanceBi
    \/ CallIsiProfileMulti
    \/ CallIsiDistanceMulti
    \/ CallIsiDistanceMatrix
    \/ CallIsiProfile
    \/ CallIsiDistance
    \/ Done

Spec == Init /\ [][Next]_vars

\* the bivariate functions alone, on every pair of spike trains
InitBi == Init /\ Len(spike_trains) = 2

NextBi ==
    \/ CallIsiProfileBi
    \/ CallIsiDistanceBi
    \/ Done

SpecBi == InitBi /\ [][NextBi]_vars

\* ================================================================== claims
SameInterval(a, b) == a.t_start = b.t_start /\ a.t_end = b.t_end

ResEq(r1, r2) == r1.kind = r2.kind /\ r1.val = r2.val

EngineEvents == {"isi_profile_cython", "isi_distance_python", "isi_distance_cython"}

PairEvents == EngineEvents \cup {"isi_profile_bi", "isi_distance_bi"}

MultiOps == {"isi_profile_multi", "isi_distance_multi", "isi_distance_matrix"}

CallIdx == SelectedIndices(spike_trains, call.indices)

\* C1: isi_distance_bi on two spike trains whose intervals differ raises the
\* incompatible-interval error, for every interval (None included) and
\* whether or not the optimized engine is available.
CE_C1 ==
    (call.op = "isi_distance_bi" /\ ~SameInterval(spike_trains[1], spike_trains[2]))
      => (call.res.kind = "error" /\ call.res.val = "IncompatibleIntervalError")

\* C2: for two spike trains on the same interval, isi_distance_bi(a, b, None)
\* equals isi_profile_bi(a, b).avrg(None), on the fast path and on the
\* profile-averaging fallback alike.
T_C2 ==
    (call.op = "isi_distance_bi" /\ ~call.interval.given
       /\ SameInterval(spike_trains[1], spike_trains[2]))
      => LET p == isi_profile_bi(spike_trains[1], spike_trains[2])
         IN  p.res.kind = "profile" /\ ResEq(call.res, PwcAvrg(p.res.val, NoInterval))

W_C2 ==
    /\ call.op = "isi_distance_bi" /\ ~call.interval.given
    /\ SameInterval(spike_trains[1], spike_trains[2])
    /\ \E i \in 1..Len(call.log) : call.log[i] = "isi_distance_cython"
    /\ call.res.kind = "num" /\ call.res.val[1] > 0
    /\ Len(spike_trains[1].spikes) + Len(spike_trains[2].spikes) >= 2

\* C3: the dispatchers resolve a call by the number of positional arguments:
\* two arguments take the bivariate path on those two spike trains, one
\* argument takes the multivariate path over that collection restricted to
\* the given indices (all when None), more than two arguments take the
\* multivariate path with the whole argument list as the collection.
T_C3 ==
    LET args == Args(call.shape)
        n == Len(args)
    IN  /\ (call.op = "isi_profile" /\ n >= 1)
           => LET e == IF n = 2 THEN isi_profile_bi(args[1], args[2])
                       ELSE IF n = 1 THEN isi_profile_multi(args[1], call.indices)
                       ELSE isi_profile_multi(spike_trains, NoIndices)
              IN  /\ ResEq(call.res, e.res) /\ call.log = e.log
                  /\ call.log[1] = (IF n = 2 THEN "isi_profile_bi" ELSE "isi_profile_multi")
        /\ (call.op = "isi_distance" /\ n >= 1)
           => LET e == IF n = 2
                       THEN IF call.indices.given
                            THEN [res |-> Err("TypeError"),
                                  log |-> <<"isi_distance_bi", "unexpected_keyword">>]
                            ELSE isi_distance_bi(args[1], args[2], call.interval)
                       ELSE IF n = 1
                       THEN isi_distance_multi(args[1], call.indices, call.interval)
                       ELSE isi_distance_multi(spike_trains, call.indices, call.interval)
              IN  /\ ResEq(call.res, e.res) /\ call.log = e.log
                  /\ call.log[1] = (IF n = 2 THEN "isi_distance_bi" ELSE "isi_distance_multi")

W_C3 ==
    /\ call.op = "isi_distance" /\ call.shape = "positional"
    /\ Len(spike_trains) = 2 /\ ~call.indices.given /\ call.interval.given
    /\ call.log[1] = "isi_distance_bi" /\ call.res.kind = "num" /\ call.res.val[1] > 0

\* C4: for a collection of at least two spike trains on one common interval,
\* an index subset of at least two and any averaging interval (None
\* included), isi_distance_multi(trains, indices, interval) equals
\* isi_profile_multi(trains, indices).avrg(interval).
T_C4 ==
    (call.op = "isi_distance_multi" /\ Len(spike_trains) >= 2 /\ Len(CallIdx) >= 2
       /\ \A i, j \in 1..Len(spike_trains) : SameInterval(spike_trains[i], spike_trains[j]))
      => ResEq(call.res,
               ThenAvrg(isi_profile_multi(spike_trains, call.indices), call.interval).res)

W_C4 ==
    /\ call.op = "isi_distance_multi" /\ Len(CallIdx) = 3
    /\ \A i, j \in 1..Len(spike_trains) : SameInterval(spike_trains[i], spike_trains[j])
    /\ call.interval.given /\ call.interval.a = 1
    /\ call.res.kind = "num" /\ call.res.val[1] > 0

\* C5: the matrix isi_distance_matrix returns is square of size |indices|,
\* symmetric, has a zero diagonal, and each off-diagonal entry is the
\* bivariate distance of the corresponding pair over the requested interval.
T_C5 ==
    (call.op = "isi_distance_matrix" /\ call.res.kind = "matrix")
      => LET m == call.res.val
             n == Len(CallIdx)
         IN  /\ Len(m) = n
             /\ \A a \in 1..n : Len(m[a]) = n /\ m[a][a] = RZero
             /\ \A a, b \in 1..n :
                   /\ m[a][b] = m[b][a]
                   /\ a # b =>
                        ResEq(Num(m[a][b]),
                              isi_distance_bi(spike_trains[CallIdx[a]],
                                              spike_trains[CallIdx[b]], call.interval).res)

W_C5 ==
    /\ call.op = "isi_distance_matrix" /\ call.res.kind = "matrix"
    /\ Len(CallIdx) = 3 /\ call.interval.given
    /\ call.res.val[1][3][1] > 0 /\ call.res.val[1][2] # call.res.val[1][3]

\* the pair profiles of the selected trains, straight from the engine
PairProfile(pair) ==
    isi_profile_impl(get_spikes_non_empty(spike_trains[pair[1]]),
                     get_spikes_non_empty(spike_trains[pair[2]]),
                     spike_trains[pair[1]].t_start, spike_trains[pair[1]].t_end)

RECURSIVE SumPairValues(_, _)
SumPairValues(P, t) ==
    IF P = {} THEN RZero
    ELSE LET q == CHOOSE q \in P : TRUE
         IN  RAdd(ValueAt(PairProfile(q), t), SumPairValues(P \ {q}, t))

RECURSIVE SumPairIntegrals(_)
SumPairIntegrals(P) ==
    IF P = {} THEN RZero
    ELSE LET q == CHOOSE q \in P : TRUE
             pr == PairProfile(q)
         IN  RAdd(PwcIntegral(pr, pr.x[1], pr.x[Len(pr.x)], 1), SumPairIntegrals(P \ {q}))

\* C6: isi_profile_multi returns the sum of the bivariate profiles over the
\* unordered pairs i < j of the selected indices scaled exactly once by 1/M,
\* M the number of pairs, so its full-domain integral is 2/(N(N-1)) times the
\* sum of the pair integrals, N the number of selected trains.
T_C6 ==
    (call.op = "isi_profile_multi" /\ call.res.kind = "profile")
      => LET p == call.res.val
             N == Len(CallIdx)
             P == {<<CallIdx[i], CallIdx[j]>> : i, j \in 1..N} \cap
                  {q \in (1..Len(spike_trains)) \X (1..Len(spike_trains)) : q[1] < q[2]}
             M == Cardinality(P)
             T0 == p.x[1]
             T1 == p.x[Len(p.x)]
         IN  /\ 2 * M = N * (N - 1)
             /\ \A t \in T0..(T1 - 1) : ValueAt(p, t) = RMul(Rat(1, M), SumPairValues(P, t))
             /\ PwcIntegral(p, T0, T1, 1) = RMul(Rat(2, N * (N - 1)), SumPairIntegrals(P))

W_C6 ==
    /\ call.op = "isi_profile_multi" /\ call.res.kind = "profile"
    /\ Len(CallIdx) = 3 /\ Len(call.res.val.x) > 2
    /\ \E i \in 1..Len(call.res.val.y) : call.res.val.y[i][1] > 0

\* C7: the fallback notice is printed at most once over any sequence of
\* profile and distance calls of the process.
CE_C7 == notices <= 1

\* C8: in every multivariate operation the cardinality and compatibility
\* checks of the selected collection complete before the first pair is
\* computed: if a selected pair has mismatched intervals the call fails and
\* no pairwise computation has run.
T_C8 ==
    (call.op \in MultiOps /\ Len(CallIdx) >= 2
       /\ \E i, j \in Range(CallIdx) : ~SameInterval(spike_trains[i], spike_trains[j]))
      => /\ call.res.kind = "error" /\ call.res.val = "IncompatibleIntervalError"
         /\ \A k \in 1..Len(call.log) : call.log[k] \notin PairEvents

W_C8 ==
    /\ call.op \in MultiOps /\ Len(CallIdx) = 3
    /\ SameInterval(spike_trains[CallIdx[1]], spike_trains[CallIdx[2]])
    /\ ~SameInterval(spike_trains[CallIdx[1]], spike_trains[CallIdx[3]])
    /\ call.res.kind = "error"

\* C9: isi_profile_multi and isi_distance_multi on an empty or one-element
\* collection, or an index subset of fewer than two, fail with the
\* insufficient-input error.
T_C9 ==
    (call.op \in {"isi_profile_multi", "isi_distance_multi"} /\ Len(CallIdx) < 2)
      => (call.res.kind = "error" /\ call.res.val = "InsufficientInputError")

W_C9 ==
    /\ call.op = "isi_distance_multi" /\ Len(spike_trains) = 1 /\ ~call.indices.given
    /\ call.res.kind = "error" /\ call.res.val = "InsufficientInputError"

\* C10: isi_distance_bi with an interval that is not None never takes the
\* distance-only fast path: its result is isi_profile_bi(a, b).avrg(interval)
\* and the same-interval check precedes every engine computation.
T_C10 ==
    (call.op = "isi_distance_bi" /\ call.interval.given)
      => /\ \A k \in 1..Len(call.log) : call.log[k] # "isi_distance_cython"
         /\ ResEq(call.res,
                  ThenAvrg(isi_profile_bi(spike_trains[1], spike_trains[2]),
                           call.interval).res)
         /\ \E c \in 1..Len(call.log) :
               /\ call.log[c] = "assert_same_interval"
               /\ \A k \in 1..Len(call.log) : call.log[k] \in EngineEvents => c < k

W_C10 ==
    /\ call.op = "isi_distance_bi" /\ call.interval.given /\ cython_available
    /\ \E k \in 1..Len(call.log) : call.log[k] = "isi_profile_cython"
    /\ call.res.kind = "num" /\ call.res.val[1] > 0

====
